---- MODULE Spec2Model ----
(***************************************************************************)
(* Timed multi-segment media assembly pipeline of RedditVideoMakerBot:     *)
(*   TTS/engine_wrapper.py        TTSEngine.run / split_post / call_tts /  *)
(*                                _merge_timing_files                      *)
(*   utils/word_timing.py         estimate_word_timings,                   *)
(*                                save_word_timings, load_word_timings     *)
(*   video_creation/final_video.py  apply_word_by_word_text, the overlay   *)
(*                                branches of make_final_video, its render *)
(*                                scope and the ProgressFfmpeg thread      *)
(*   utils/word_overlay.py        create_word_by_word_drawtext_filter      *)
(*                                                                         *)
(* Time values are exact: a duration or a word boundary is an integer      *)
(* number of ticks, and the sets the durations are drawn from are chosen   *)
(* so that every division the code performs is exact.  The rounding of     *)
(* IEEE doubles is therefore not part of this model.                       *)
(*                                                                         *)
(* A text is a sequence of one-character strings.                          *)
(***************************************************************************)
EXTENDS Integers, Sequences, FiniteSets, TLC

VARIABLES
  \* ---- TextSegmenter: the comprehension of split_post (lines 110-115)
  seg_text,        \* the argument text
  seg_max_chars,   \* self.tts_module.max_chars
  split_text,      \* the list the comprehension builds
  seg_pc,          \* "call" before the comprehension, "done" after
  \* ---- WordTimingEstimator: estimate_word_timings
  est_text,        \* the argument text
  est_duration,    \* the argument audio_duration (ticks)
  est_result,      \* what the call produced
  est_pc,          \* "call", then "returned" or "raised"
  \* ---- settings.config
  silence_duration,   \* settings.config["settings"]["tts"]["silence_duration"]
  word_by_word_text,  \* settings.config["settings"]["word_by_word_text"]
  narration_mode,     \* "comments", "story0" or "story1" (storymode, storymodemethod)
  \* ---- TimingStore merge: TTSEngine._merge_timing_files
  timing_files,    \* the contents of the part timing files, in list order
  output_file,     \* the merged timing file: Absent or the saved timeline
  merge_pc,        \* "call", then "done" or "raised" (save_word_timings failed)
  \* ---- OverlayScheduler: the overlay loop of make_final_video
  number_of_clips,        \* the argument number_of_clips
  audio_clips,            \* durations of the files concatenated into audio.mp3
  audio_clips_durations,  \* probed durations: [1] the title, [c + 2] unit c
  sched_timings,          \* [i + 1]: content of the timing file pass i opens
  current_time,           \* the overlay cursor
  sched_i,                \* the loop variable i
  directives,             \* the overlay directives emitted so far, in order
  sched_pc,               \* "loop", then "done"
  \* ---- SynthesisOrchestrator: TTSEngine.run, split_post, call_tts
  n_units,           \* len(reddit_object["comments"]) or number of story texts
  long_units,        \* the indices of the texts longer than max_chars
  max_length,        \* self.max_length
  pc,                \* "title", "units", "split", "merge", "cleanup", "done", "raised"
  next_i,            \* the index enumerate() yields next
  idx,               \* the variable idx of run
  length,            \* self.length
  last_clip_length,  \* self.last_clip_length
  disk,              \* the files under self.path
  calls,             \* log of the call_tts invocations, in order
  split_idx,         \* the argument idx of the running split_post (a unit name)
  split_chunks,      \* per chunk of split_text: is it non-blank after process_text
  idy,               \* chunks of split_text already handled
  split_files,       \* the part indices appended to split_files
  split_timings,     \* the part indices appended to split_timings
  list_txt,          \* the content of list.txt
  raised_by,         \* what raised the exception that left run
  faults,            \* failures of the environment so far (probe, save, unlink, synthesizer)
  \* ---- TimingStore: save_word_timings, load_word_timings
  store_timings,     \* the argument timings of save_word_timings
  store_file,        \* the file at filepath: AbsentText or its characters
  store_loaded,      \* what load_word_timings returned
  store_pc,          \* "save", "load", then "loaded" or "raised"
  \* ---- Renderer scope of make_final_video and its ProgressFfmpeg threads
  allowOnlyTTSFolder,  \* is the second, OnlyTTS render asked for
  vid_duration,        \* the argument length, handed on as vid_duration_seconds
  render_no,           \* 1 in the first with block, 2 in the OnlyTTS one
  main_pc,             \* position of the main thread
  main_old,            \* the local old_percentage of the main thread
  pbar_n,              \* pbar.n, the progress target
  pbar_writers,        \* the threads that have written pbar.n
  observers,           \* per render: the state of its ProgressFfmpeg thread
  progress_files,      \* per render: the out_time lines ffmpeg wrote so far
  callback_log         \* the calls of on_update_example, in order

segVars == <<seg_text, seg_max_chars, split_text, seg_pc>>
estVars == <<est_text, est_duration, est_result, est_pc>>
settingsVars == <<silence_duration, word_by_word_text, narration_mode>>
mergeVars == <<timing_files, output_file, merge_pc>>
schedVars == <<number_of_clips, audio_clips, audio_clips_durations, sched_timings,
               current_time, sched_i, directives, sched_pc>>
runVars == <<n_units, long_units, faults, max_length, pc, next_i, idx, length,
             last_clip_length, disk, calls, split_idx, split_chunks, idy,
             split_files, split_timings, list_txt, raised_by>>
storeVars == <<store_timings, store_file, store_loaded, store_pc>>
renderVars == <<allowOnlyTTSFolder, vid_duration, render_no, main_pc, main_old, pbar_n,
                pbar_writers, observers, progress_files, callback_log>>
vars == <<segVars, estVars, settingsVars, mergeVars, schedVars, runVars,
          storeVars, renderVars>>

\* The value of a variable that the specification at hand does not use.
Idle == "idle"

IdleSeg == seg_text = Idle /\ seg_max_chars = Idle /\ split_text = Idle /\ seg_pc = Idle
IdleEst == est_text = Idle /\ est_duration = Idle /\ est_result = Idle /\ est_pc = Idle
IdleRun ==
  /\ n_units = Idle /\ max_length = Idle /\ pc = Idle
  /\ long_units = Idle /\ faults = Idle
  /\ next_i = Idle /\ idx = Idle /\ length = Idle /\ last_clip_length = Idle
  /\ disk = Idle /\ calls = Idle /\ split_idx = Idle /\ split_chunks = Idle
  /\ idy = Idle /\ split_files = Idle /\ split_timings = Idle /\ list_txt = Idle
  /\ raised_by = Idle
IdleSettings ==
  silence_duration = Idle /\ word_by_word_text = Idle /\ narration_mode = Idle
IdleMerge == timing_files = Idle /\ output_file = Idle /\ merge_pc = Idle
IdleStore ==
  store_timings = Idle /\ store_file = Idle /\ store_loaded = Idle /\ store_pc = Idle
IdleRender ==
  /\ allowOnlyTTSFolder = Idle /\ vid_duration = Idle /\ render_no = Idle
  /\ main_pc = Idle /\ main_old = Idle /\ pbar_n = Idle /\ pbar_writers = Idle
  /\ observers = Idle /\ progress_files = Idle /\ callback_log = Idle
IdleSched ==
  /\ number_of_clips = Idle /\ audio_clips = Idle /\ audio_clips_durations = Idle /\ sched_timings = Idle
  /\ current_time = Idle /\ sched_i = Idle /\ directives = Idle /\ sched_pc = Idle

(***************************************************************************)
(* Bounds                                                                  *)
(***************************************************************************)
MaxTextLen == 5     \* longest text given to the segmenter
MaxChars == 2       \* largest max_chars of a synthesizer
MaxEstLen == 4      \* longest text given to the estimator
MaxDurK == 2        \* largest audio duration, in multiples of DurUnit
MaxParts == 3       \* most part timing files given to one merge
MaxClips == 2       \* largest number_of_clips given to the overlay loop
MaxUnits == 3       \* most comments (or story texts) of a thread
MaxChunks == 3      \* most chunks split_post cuts one text into
MaxLongUnits == 1   \* most texts of a thread that are longer than max_chars
MaxFaults == 1      \* most failures of the environment during one run
MaxStoreLen == 2    \* longest timeline saved and loaded
MaxProgressLines == 2   \* most progress blocks ffmpeg writes during one render

(***************************************************************************)
(* Helpers on sequences                                                    *)
(***************************************************************************)
SetMax(S) == CHOOSE x \in S : \A y \in S : y <= x

SeqsUpTo(S, n) == UNION { [1..k -> S] : k \in 0..n }

RECURSIVE Flatten(_)
Flatten(ss) == IF ss = <<>> THEN <<>> ELSE Head(ss) \o Flatten(Tail(ss))

RECURSIVE Gcd(_, _)
Gcd(a, b) == IF b = 0 THEN a ELSE Gcd(b, a % b)

RECURSIVE LcmUpTo(_)
LcmUpTo(n) == IF n <= 1 THEN 1 ELSE LET l == LcmUpTo(n - 1) IN (l * n) \div Gcd(l, n)

(***************************************************************************)
(* Python str: whitespace, strip(), split()                                *)
(***************************************************************************)
\* str.isspace on one character of the alphabet
IsSpace(c) == c \in {" ", "\n"}

RECURSIVE LStrip(_)
LStrip(s) == IF s # <<>> /\ IsSpace(Head(s)) THEN LStrip(Tail(s)) ELSE s

RECURSIVE RStrip(_)
RStrip(s) ==
  IF s # <<>> /\ IsSpace(s[Len(s)]) THEN RStrip(SubSeq(s, 1, Len(s) - 1)) ELSE s

\* str.strip()
Strip(s) == RStrip(LStrip(s))

\* the characters of s that are not whitespace, in order
NonSpace(s) == SelectSeq(s, LAMBDA c : ~IsSpace(c))

\* str.split(): the maximal runs of non-whitespace characters, in order
RECURSIVE SplitFrom(_, _, _)
SplitFrom(s, i, cur) ==
  IF i > Len(s)
    THEN IF cur = <<>> THEN <<>> ELSE <<cur>>
    ELSE IF IsSpace(s[i])
           THEN (IF cur = <<>> THEN <<>> ELSE <<cur>>) \o SplitFrom(s, i + 1, <<>>)
           ELSE SplitFrom(s, i + 1, Append(cur, s[i]))

StrSplit(s) == SplitFrom(s, 1, <<>>)

(***************************************************************************)
(* TextSegmenter: re.finditer(r" *(((.|\n){0,N})(\.|.$))", text)           *)
(***************************************************************************)
SegChars == {"a", ".", " ", "\n"}

\* number of consecutive " " of t from position s: what the greedy " *" can take
RECURSIVE LeadingSpaces(_, _)
LeadingSpaces(t, s) ==
  IF s <= Len(t) /\ t[s] = " " THEN 1 + LeadingSpaces(t, s + 1) ELSE 0

\* "$": the end of the string, or just before a newline that ends the string
AtEnd(t, p) == p = Len(t) + 1 \/ (p = Len(t) /\ t[p] = "\n")

\* (\.|.$) matches the one character at q: a period, or any character but a
\* newline that stands at the end
Terminal(t, q) ==
  /\ q <= Len(t)
  /\ \/ t[q] = "."
     \/ t[q] # "\n" /\ AtEnd(t, q + 1)

\* the positions at which the match can end when (.|\n){0,N} starts at p
BodyEnds(t, N, p) == { q \in p..(p + N) : Terminal(t, q) }

\* position of the last character of the match that starts at s, 0 when there
\* is none: the regex engine prefers more leading spaces, then a longer body
MatchEnd(t, N, s) ==
  LET ks == { k \in 0..LeadingSpaces(t, s) : BodyEnds(t, N, s + k) # {} }
  IN  IF ks = {} THEN 0 ELSE SetMax(BodyEnds(t, N, s + SetMax(ks)))

\* finditer: the matches from left to right; a position with no match is
\* passed over, the search resumes after each match
RECURSIVE FindIter(_, _, _)
FindIter(t, N, s) ==
  IF s > Len(t) THEN <<>>
  ELSE LET q == MatchEnd(t, N, s)
       IN  IF q = 0 THEN FindIter(t, N, s + 1)
           ELSE <<SubSeq(t, s, q)>> \o FindIter(t, N, q + 1)

\* split_text = [x.group().strip() for x in re.finditer(...)]
SplitText(t, N) ==
  LET ms == FindIter(t, N, 1) IN [i \in 1..Len(ms) |-> Strip(ms[i])]

\* split_post is entered only for a text longer than max_chars (run, lines 82, 98)
SegInit ==
  /\ seg_max_chars \in 1..MaxChars
  /\ seg_text \in { t \in SeqsUpTo(SegChars, MaxTextLen) : Len(t) > seg_max_chars }
  /\ split_text = <<>>
  /\ seg_pc = "call"
  /\ IdleEst /\ IdleSettings /\ IdleMerge /\ IdleSched /\ IdleRun
  /\ IdleStore /\ IdleRender

SegSplit ==
  /\ seg_pc = "call"
  /\ split_text' = SplitText(seg_text, seg_max_chars)
  /\ seg_pc' = "done"
  /\ UNCHANGED <<seg_text, seg_max_chars, estVars, settingsVars, mergeVars, schedVars,
                 runVars,
                 storeVars, renderVars>>

SegNext == SegSplit

SpecSegmenter == SegInit /\ [][SegNext]_vars

(***************************************************************************)
(* WordTimingEstimator: estimate_word_timings                              *)
(***************************************************************************)
EstChars == {"a", "b", " "}

\* One tick is 1/DurUnit of the unit in which durations are drawn, so that
\* audio_duration / len(words) is exact for every word count the bound allows.
DurUnit == LcmUpTo(MaxEstLen)

\* time_per_word = audio_duration / len(words)
TimePerWord_OneMore(audio_duration, n) == audio_duration \div (n + 1)

TimePerWord(audio_duration, n) == audio_duration \div n

\* the loop of lines 40-42; elapsed is the local current_time
RECURSIVE EstLoop(_, _, _, _)
EstLoop(words, i, elapsed, time_per_word) ==
  IF i > Len(words) THEN <<>>
  ELSE <<[word |-> words[i], start |-> elapsed, end |-> elapsed + time_per_word]>>
       \o EstLoop(words, i + 1, elapsed + time_per_word, time_per_word)

\* [raised |-> TRUE] stands for the ValueError of line 32
estimate_word_timings(text, audio_duration) ==
  LET words == StrSplit(text) IN
  IF words = <<>> THEN [raised |-> FALSE, timings |-> <<>>]
  ELSE IF audio_duration <= 0 THEN [raised |-> TRUE, timings |-> <<>>]
  ELSE [raised |-> FALSE,
        timings |-> EstLoop(words, 1, 0, TimePerWord(audio_duration, Len(words)))]

EstInit ==
  /\ est_text \in SeqsUpTo(EstChars, MaxEstLen)
  /\ est_duration \in { k * DurUnit : k \in (-1)..MaxDurK }
  /\ est_result = Idle
  /\ est_pc = "call"
  /\ IdleSeg /\ IdleSettings /\ IdleMerge /\ IdleSched /\ IdleRun
  /\ IdleStore /\ IdleRender

EstimateCall ==
  /\ est_pc = "call"
  /\ est_result' = estimate_word_timings(est_text, est_duration)
  /\ est_pc' = IF est_result'.raised THEN "raised" ELSE "returned"
  /\ UNCHANGED <<est_text, est_duration, segVars, settingsVars, mergeVars,
                 schedVars, runVars,
                 storeVars, renderVars>>

EstNext == EstimateCall

SpecEstimator == EstInit /\ [][EstNext]_vars

(***************************************************************************)
(* Timing files.  A timing file is absent (kind "missing"), holds text that*)
(* json.load rejects with JSONDecodeError (kind "malformed"), or holds a   *)
(* timeline: a sequence of records [word, start, end].  Words are free of  *)
(* the characters that the drawtext escaping of apply_word_by_word_text    *)
(* rewrites.                                                               *)
(***************************************************************************)
MissingFile == [kind |-> "missing", timings |-> <<>>]
MalformedFile == [kind |-> "malformed", timings |-> <<>>]
TimelineFile(timings) == [kind |-> "timeline", timings |-> timings]

(***************************************************************************)
(* TimingStore merge: TTSEngine._merge_timing_files                        *)
(***************************************************************************)
\* lines 228-235: every record of one part, shifted by current_offset
ShiftPart(timings, current_offset) ==
  [j \in 1..Len(timings) |->
     [word |-> timings[j].word,
      start |-> timings[j].start + current_offset,
      end |-> timings[j].end + current_offset]]

\* lines 239-242: the offset of the next part, taken after a non-empty part
NextOffset_NoGap(merged_timings, gap) == merged_timings[Len(merged_timings)].end

NextOffset(merged_timings, gap) == merged_timings[Len(merged_timings)].end + gap

\* lines 238 and 244-246: the offset after a part that added no record
SkippedOffset_AddGap(current_offset, gap) == current_offset + gap

SkippedOffset(current_offset, gap) == current_offset

\* the loop of lines 222-246; a missing or malformed file raises inside the
\* try and is passed over by the except clause
RECURSIVE MergeLoop(_, _, _, _, _)
MergeLoop(files, i, merged_timings, current_offset, gap) ==
  IF i > Len(files) THEN merged_timings
  ELSE IF files[i].kind # "timeline"
         THEN MergeLoop(files, i + 1, merged_timings,
                        SkippedOffset(current_offset, gap), gap)
         ELSE LET timings == files[i].timings
                  merged == merged_timings \o ShiftPart(timings, current_offset)
              IN  MergeLoop(files, i + 1, merged,
                            IF timings # <<>> THEN NextOffset(merged, gap)
                                              ELSE SkippedOffset(current_offset, gap),
                            gap)

\* merged_timings as it stands at line 249
MergeTimings(files, gap) == MergeLoop(files, 1, <<>>, 0, gap)

\* Part timelines as the estimator writes them: one or two words of 2 or 4
\* ticks each (one tick is half a second)
PartWordTicks == {2, 4}
PartWords == {<<"a">>, <<"b">>, <<"a", "b">>}
PartFiles ==
  {MissingFile, MalformedFile, TimelineFile(<<>>)}
    \cup { TimelineFile(EstLoop(ws, 1, 0, tpw)) : ws \in PartWords, tpw \in PartWordTicks }
SilenceDurations == {0, 1}

MergeInit ==
  /\ timing_files \in SeqsUpTo(PartFiles, MaxParts)
  /\ silence_duration \in SilenceDurations
  /\ word_by_word_text = TRUE      \* split_post merges only then (line 147)
  /\ narration_mode = Idle
  /\ output_file = MissingFile
  /\ merge_pc = "call"
  /\ IdleSeg /\ IdleEst /\ IdleSched /\ IdleRun
  /\ IdleStore /\ IdleRender

\* lines 219-250 with save_word_timings succeeding (or nothing to save)
MergeSaved ==
  /\ merge_pc = "call"
  /\ LET merged_timings == MergeTimings(timing_files, silence_duration)
     IN  output_file' = IF merged_timings # <<>> THEN TimelineFile(merged_timings)
                                                 ELSE output_file
  /\ merge_pc' = "done"
  /\ UNCHANGED <<timing_files, settingsVars, segVars, estVars, schedVars, runVars,
                 storeVars, renderVars>>

\* line 250: save_word_timings raises OSError, which nothing here catches
MergeSaveFails ==
  /\ merge_pc = "call"
  /\ MergeTimings(timing_files, silence_duration) # <<>>
  /\ merge_pc' = "raised"
  /\ UNCHANGED <<timing_files, settingsVars, output_file,
                 segVars, estVars, schedVars, runVars,
                 storeVars, renderVars>>

MergeNext == MergeSaved \/ MergeSaveFails

SpecMerge == MergeInit /\ [][MergeNext]_vars

(***************************************************************************)
(* OverlayScheduler: apply_word_by_word_text and the comment-mode overlay  *)
(* loop of make_final_video.  An overlay directive is a record             *)
(* [kind, unit, text, windowStart, windowEnd]; the text of a caption is    *)
(* the sequence of its words with " " between them.                        *)
(***************************************************************************)
\* " ".join(words)
RECURSIVE Join(_)
Join(words) ==
  IF words = <<>> THEN <<>>
  ELSE IF Len(words) = 1 THEN <<words[1]>>
  ELSE <<words[1], " ">> \o Join(Tail(words))

\* fonts/Roboto-Bold.ttf: make_final_video has already loaded this file in
\* create_fancy_thumbnail (line 213, reached from line 374) when the overlay
\* loop starts, so the check of lines 146-149 finds it
FontFileExists == TRUE

\* lines 173-178: where caption i (1-based) of a unit ends
CaptionEnd_OwnEnd(timings, i, start_time, end_time) ==
  IF i < Len(timings) THEN start_time + timings[i + 1].start
                      ELSE start_time + timings[i].end

CaptionEnd(timings, i, start_time, end_time) ==
  IF i < Len(timings) THEN start_time + timings[i + 1].start ELSE end_time

\* the captions apply_word_by_word_text adds for one unit, in order
apply_word_by_word_text(timings_file, start_time, end_time, unit) ==
  IF timings_file.kind = "missing" THEN <<>>
  ELSE IF timings_file.kind = "malformed" THEN <<>>
  ELSE IF timings_file.timings = <<>> THEN <<>>
  ELSE IF ~FontFileExists THEN <<>>
  ELSE LET timings == timings_file.timings
       IN  [i \in 1..Len(timings) |->
              [kind |-> "caption",
               unit |-> unit,
               text |-> Join([j \in 1..i |-> timings[j].word]),
               windowStart |-> start_time + timings[i].start,
               windowEnd |-> CaptionEnd(timings, i, start_time, end_time)]]

\* utils/word_overlay.py, a helper that make_final_video does not call: the
\* same captions, except that the last one ends at its own estimated end
create_word_by_word_drawtext_filter(timings, start_time, unit) ==
  [i \in 1..Len(timings) |->
     [kind |-> "caption",
      unit |-> unit,
      text |-> Join([j \in 1..i |-> timings[j].word]),
      windowStart |-> start_time + timings[i].start,
      windowEnd |-> IF i < Len(timings) THEN start_time + timings[i + 1].start
                                        ELSE start_time + timings[i].end]]

\* lines 192, 405, 432, 463: enable=between(t, windowStart, windowEnd), the
\* ffmpeg expression that is 1 for windowStart <= t <= windowEnd
Visible(d, t) == d.windowStart <= t /\ t <= d.windowEnd

\* the audio file whose probed duration is audio_clips_durations[i]: title.mp3
\* at 0, then {i-1}.mp3 (lines 339-346) or postaudio-{i-1}.mp3 (lines 386-395)
WindowUnit(mode, i) ==
  IF i = 0 THEN [stem |-> "title", i |-> 0]
  ELSE [stem |-> IF mode = "comments" THEN "comment" ELSE "postaudio-", i |-> i - 1]

\* the unit whose timing file pass i opens: title_timings.json (lines 412,
\* 472), {i-1}_timings.json (line 475) or postaudio-{i}_timings.json (line 439)
TimingsUnit(mode, i) ==
  CASE mode = "story1" -> [stem |-> "postaudio-", i |-> i]
    [] mode = "comments" /\ i > 0 -> [stem |-> "comment", i |-> i - 1]
    [] OTHER -> [stem |-> "title", i |-> 0]

\* unit timelines of one or two words, one tick (one second) per word
SchedWords == {<<"hi">>, <<"hi", "there">>}
SchedFiles ==
  {MissingFile, MalformedFile, TimelineFile(<<>>)}
    \cup { TimelineFile(EstLoop(ws, 1, 0, 1)) : ws \in SchedWords }
SchedDurations == {2, 3}

\* lines 322-337: the durations of the files concatenated into audio.mp3.
\* Comment mode takes title.mp3 and {i}.mp3 for i < number_of_clips; story
\* mode 0 title.mp3 and postaudio.mp3; story mode 1 title.mp3 and
\* postaudio-{i}.mp3 for i <= number_of_clips
AudioClips(mode, durations) ==
  IF mode = "comments" THEN {durations}
  ELSE { Append(durations, d) : d \in SchedDurations }

\* TTSEngine.run returns idx = 0 in story mode 0, and the caller hands it on
\* as number_of_clips
SchedInit ==
  /\ narration_mode \in {"comments", "story0", "story1"}
  /\ number_of_clips \in IF narration_mode = "story0" THEN {0} ELSE 0..MaxClips
  /\ audio_clips_durations \in [1..(number_of_clips + 1) -> SchedDurations]
  /\ audio_clips \in AudioClips(narration_mode, audio_clips_durations)
  /\ sched_timings \in [1..(number_of_clips + 1) -> SchedFiles]
  /\ word_by_word_text \in BOOLEAN
  /\ silence_duration = Idle
  /\ current_time = 0
  /\ sched_i = 0
  /\ directives = <<>>
  /\ sched_pc = "loop"
  /\ IdleSeg /\ IdleEst /\ IdleMerge /\ IdleRun
  /\ IdleStore /\ IdleRender

\* lines 403-408, 430-435, 461-466: the overlay of image_clips[i]
ImageDirective_FromZero(i, cursor, d) ==
  [kind |-> "image", unit |-> i, text |-> <<>>,
   windowStart |-> 0, windowEnd |-> cursor + d]

ImageDirective(i, cursor, d) ==
  [kind |-> "image", unit |-> i, text |-> <<>>,
   windowStart |-> cursor, windowEnd |-> cursor + d]

\* lines 422, 449, 486: current_time += audio_clips_durations[i]
AdvanceCursor_OnlyWithCaptions(cursor, d, captions) ==
  IF captions = <<>> THEN cursor ELSE cursor + d

AdvanceCursor(cursor, d, captions) == cursor + d

\* what one unit adds: its image, then its captions; the cursor moves on
OverlayUnit(i) ==
  LET d == audio_clips_durations[i + 1]
      captions == IF word_by_word_text
                    THEN apply_word_by_word_text(sched_timings[i + 1], current_time,
                                                 current_time + d, i)
                    ELSE <<>>
  IN  /\ directives' = (directives \o <<ImageDirective(i, current_time, d)>>) \o captions
      /\ current_time' = AdvanceCursor(current_time, d, captions)

\* one pass of the loop of lines 424-449 (story mode 1: pass i shows
\* image_clips[i] and opens postaudio-{i}_timings.json) or of lines 451-486
\* (comment mode: pass 0 opens title_timings.json, pass i > 0
\* {i-1}_timings.json)
SchedUnit ==
  /\ sched_pc = "loop"
  /\ narration_mode # "story0"
  /\ sched_i <= number_of_clips
  /\ OverlayUnit(sched_i)
  /\ sched_i' = sched_i + 1
  /\ UNCHANGED <<number_of_clips, audio_clips, audio_clips_durations, sched_timings,
                 sched_pc, segVars, estVars, settingsVars, mergeVars, runVars,
                 storeVars, renderVars>>

\* lines 396-422 (story mode 0): the title is overlaid, with the captions of
\* title_timings.json from 0 on; story_content.png joins image_clips and is
\* not overlaid
SchedStoryTitle ==
  /\ sched_pc = "loop"
  /\ narration_mode = "story0"
  /\ sched_i = 0
  /\ OverlayUnit(0)
  /\ sched_i' = 1
  /\ UNCHANGED <<number_of_clips, audio_clips, audio_clips_durations, sched_timings,
                 sched_pc, segVars, estVars, settingsVars, mergeVars, runVars,
                 storeVars, renderVars>>

\* the overlays are all built
SchedDone ==
  /\ sched_pc = "loop"
  /\ sched_i > number_of_clips
  /\ sched_pc' = "done"
  /\ UNCHANGED <<number_of_clips, audio_clips, audio_clips_durations, sched_timings,
                 current_time, sched_i, directives,
                 segVars, estVars, settingsVars, mergeVars, runVars,
                 storeVars, renderVars>>

SchedNext == SchedUnit \/ SchedStoryTitle \/ SchedDone

SpecScheduler == SchedInit /\ [][SchedNext]_vars

(***************************************************************************)
(* SynthesisOrchestrator: TTSEngine.run, split_post, call_tts.             *)
(* A file under self.path is a record [kind, name, dur, timings]: kind     *)
(* "mp3" with the duration of its audio, or kind "timings" with the        *)
(* timeline it holds.  A name is [stem, i, part]: title, {i}, {i}-{part}   *)
(* .part, postaudio, postaudio-{part}.part, postaudio-{i}, silence.        *)
(***************************************************************************)
FileName(stem, i, part) == [stem |-> stem, i |-> i, part |-> part]
TitleName == FileName("title", 0, -1)
SilenceName == FileName("silence", 0, -1)
NoName == FileName("none", 0, -1)

\* the unit file names run uses in each mode (lines 83-88, 100-102)
UnitName(i) ==
  FileName(CASE narration_mode = "comments" -> "comment"
             [] narration_mode = "story0" -> "postaudio"
             [] OTHER -> "postaudio-", i, -1)

\* f"{idx}-{idy}.part" (line 126)
PartName(unit, y) == FileName(unit.stem, unit.i, y)

HasFile(d, kind, name) == \E f \in d : f.kind = kind /\ f.name = name
ReadFile(d, kind, name) == CHOOSE f \in d : f.kind = kind /\ f.name = name
DeleteFile(d, kind, name) == { f \in d : ~(f.kind = kind /\ f.name = name) }
WriteFile(d, kind, name, dur, timings) ==
  DeleteFile(d, kind, name)
    \cup {[kind |-> kind, name |-> name, dur |-> dur, timings |-> timings]}

\* the sanitized text handed to the synthesizer and to the estimator: one word
UnitText == <<"w">>
\* durations of synthesized audio and the budget, in seconds
RunDurations == {5, 40}
Budgets == {30}
RunSilenceDurations == {1}

\* What one call_tts meets after the synthesizer returned: the duration of
\* the audio it wrote, whether AudioFileClip can probe it, and whether saving
\* the timings works (asked only with captions on and a probed duration)
Outcomes ==
  { o \in [dur : RunDurations, probe_ok : BOOLEAN, timing_ok : BOOLEAN] :
      /\ o.timing_ok \/ (word_by_word_text /\ o.probe_ok)
      /\ (o.probe_ok /\ o.timing_ok) \/ faults < MaxFaults }

\* lines 179-182 and 197-198: self.length after call_tts
LengthAfterCall(len, dur, probe_ok) == IF probe_ok THEN len + dur ELSE 0

\* line 181: self.last_clip_length after call_tts
LastClipAfterCall(last, dur, probe_ok) == IF probe_ok THEN dur ELSE last

\* lines 165-174 and 184-194: the files call_tts leaves
DiskAfterCall(d, name, o) ==
  LET d1 == WriteFile(d, "mp3", name, o.dur, <<>>)
      est == estimate_word_timings(UnitText, o.dur)
  IN  IF word_by_word_text /\ o.probe_ok /\ o.timing_ok /\ ~est.raised
        THEN WriteFile(d1, "timings", name, 0, est.timings)
        ELSE d1

\* call_tts(name, text) with the synthesizer succeeding, but for the files
CallTts(name, o) ==
  /\ length' = LengthAfterCall(length, o.dur, o.probe_ok)
  /\ last_clip_length' = LastClipAfterCall(last_clip_length, o.dur, o.probe_ok)
  /\ calls' = Append(calls, [name |-> name, synth_ok |-> TRUE, dur |-> o.dur,
                             probe_ok |-> o.probe_ok, before |-> length,
                             after |-> length'])
  /\ faults' = IF o.probe_ok /\ o.timing_ok THEN faults ELSE faults + 1

\* call_tts(name, text) with self.tts_module.run raising (lines 165-174)
CallTtsRaises(name) ==
  /\ calls' = Append(calls, [name |-> name, synth_ok |-> FALSE, dur |-> 0,
                             probe_ok |-> FALSE, before |-> length,
                             after |-> length])
  /\ faults < MaxFaults
  /\ faults' = faults + 1
  /\ pc' = "raised"
  /\ raised_by' = "synth"

RunInit ==
  /\ narration_mode \in {"comments", "story0", "story1"}
  /\ n_units \in IF narration_mode = "story0" THEN {1} ELSE 0..MaxUnits
  /\ long_units \in { L \in SUBSET (0..(n_units - 1)) :
                         /\ Cardinality(L) <= MaxLongUnits
                         /\ narration_mode = "story1" => L = {} }
  /\ faults = 0
  /\ max_length \in Budgets
  /\ silence_duration \in RunSilenceDurations
  /\ word_by_word_text \in BOOLEAN
  /\ pc = "title"
  /\ next_i = 0
  /\ idx = 0
  /\ length = 0
  /\ last_clip_length = 0
  /\ disk = {}
  /\ calls = <<>>
  /\ split_idx = NoName
  /\ split_chunks = <<>>
  /\ idy = 0
  /\ split_files = <<>>
  /\ split_timings = <<>>
  /\ list_txt = <<>>
  /\ raised_by = "none"
  /\ IdleSeg /\ IdleEst /\ IdleMerge /\ IdleSched
  /\ IdleStore /\ IdleRender

splitVars == <<split_idx, split_chunks, idy, split_files, split_timings, list_txt>>
inputVars == <<n_units, long_units, max_length, settingsVars>>
otherVars == <<segVars, estVars, mergeVars, schedVars, storeVars, renderVars>>

\* line 76: call_tts("title", ...); line 78: idx = 0
RunTitle ==
  /\ pc = "title"
  /\ \E o \in Outcomes :
       /\ CallTts(TitleName, o)
       /\ disk' = DiskAfterCall(disk, TitleName, o)
  /\ idx' = 0
  /\ pc' = "units"
  /\ UNCHANGED <<next_i, raised_by, splitVars, inputVars, otherVars>>

RunTitleRaises ==
  /\ pc = "title"
  /\ CallTtsRaises(TitleName)
  /\ UNCHANGED <<next_i, idx, length, last_clip_length, disk, splitVars,
                 inputVars, otherVars>>

\* line 93
OverBudget == narration_mode = "comments" /\ length > max_length /\ next_i > 1

\* lines 93-96: the rollback, which leaves the loop
RunRollback ==
  /\ pc = "units"
  /\ next_i < n_units
  /\ OverBudget
  /\ length' = length - last_clip_length
  /\ idx' = next_i - 1
  /\ pc' = "done"
  /\ UNCHANGED <<faults, next_i, last_clip_length, disk, calls, raised_by, splitVars,
                 inputVars, otherVars>>

\* lines 85, 88, 102: the text fits max_chars (story1 never splits)
RunUnitDirect ==
  /\ pc = "units"
  /\ next_i < n_units
  /\ ~OverBudget
  /\ next_i \notin long_units
  /\ idx' = next_i
  /\ next_i' = next_i + 1
  /\ \E o \in Outcomes :
       /\ CallTts(UnitName(next_i), o)
       /\ disk' = DiskAfterCall(disk, UnitName(next_i), o)
  /\ UNCHANGED <<pc, raised_by, splitVars, inputVars, otherVars>>

RunUnitRaises ==
  /\ pc = "units"
  /\ next_i < n_units
  /\ ~OverBudget
  /\ next_i \notin long_units
  /\ idx' = next_i
  /\ next_i' = next_i + 1
  /\ CallTtsRaises(UnitName(next_i))
  /\ UNCHANGED <<length, last_clip_length, disk, splitVars, inputVars, otherVars>>

\* lines 83, 100 and 108-116: the text is longer than max_chars; split_post
\* builds split_text and writes silence.mp3
RunUnitSplit ==
  /\ pc = "units"
  /\ next_i < n_units
  /\ ~OverBudget
  /\ next_i \in long_units
  /\ idx' = next_i
  /\ next_i' = next_i + 1
  /\ split_idx' = UnitName(next_i)
  /\ split_chunks' \in SeqsUpTo(BOOLEAN, MaxChunks)
  /\ idy' = 0
  /\ split_files' = <<>>
  /\ split_timings' = <<>>
  /\ disk' = WriteFile(disk, "mp3", SilenceName, silence_duration, <<>>)
  /\ pc' = "split"
  /\ UNCHANGED <<faults, length, last_clip_length, calls, list_txt, raised_by,
                 inputVars, otherVars>>

\* the loop of run is exhausted; line 105 returns self.length, idx
RunLoopEnd ==
  /\ pc = "units"
  /\ next_i >= n_units
  /\ pc' = "done"
  /\ UNCHANGED <<faults, next_i, idx, length, last_clip_length, disk, calls, raised_by,
                 splitVars, inputVars, otherVars>>

\* lines 122-124: process_text left nothing of the chunk
SplitSkipBlank ==
  /\ pc = "split"
  /\ idy < Len(split_chunks)
  /\ ~split_chunks[idy + 1]
  /\ idy' = idy + 1
  /\ UNCHANGED <<faults, pc, next_i, idx, length, last_clip_length, disk, calls, raised_by,
                 split_idx, split_chunks, split_files, split_timings, list_txt,
                 inputVars, otherVars>>

\* lines 127-131: list.txt names every chunk of split_text, then silence once
ListTxt(unit, n_chunks, files) ==
  [z \in 1..n_chunks |-> PartName(unit, z - 1)] \o <<SilenceName>>

\* how many leading entries of list.txt name an existing mp3 file
RECURSIVE ExistingPrefix(_, _, _)
ExistingPrefix(d, list, k) ==
  IF k < Len(list) /\ HasFile(d, "mp3", list[k + 1])
    THEN ExistingPrefix(d, list, k + 1) ELSE k

RECURSIVE ListDuration(_, _, _)
ListDuration(d, list, k) ==
  IF k = 0 THEN 0
  ELSE ReadFile(d, "mp3", list[k]).dur + ListDuration(d, list, k - 1)

\* lines 138-144: ffmpeg -f concat -i list.txt -c copy {idx}.mp3, exit status
\* ignored.  With every listed file present the unit file holds them all;
\* otherwise ffmpeg stops at the first absent file and has written nothing
\* (-1) or the files before it
ConcatOutcomes(d, list) ==
  LET m == ExistingPrefix(d, list, 0)
  IN  IF m = Len(list) THEN {ListDuration(d, list, m)}
      ELSE {-1} \cup (IF m >= 1 THEN {ListDuration(d, list, m)} ELSE {})

\* lines 126-144: one retained chunk
SplitPart ==
  /\ pc = "split"
  /\ idy < Len(split_chunks)
  /\ split_chunks[idy + 1]
  /\ \E o \in Outcomes :
       LET part == PartName(split_idx, idy)
           d1 == DiskAfterCall(disk, part, o)
           list == ListTxt(split_idx, Len(split_chunks), Append(split_files, idy))
       IN  /\ CallTts(part, o)
           /\ list_txt' = list
           /\ split_files' = Append(split_files, idy)
           /\ split_timings' = IF HasFile(d1, "timings", part)
                                 THEN Append(split_timings, idy) ELSE split_timings
           /\ \E out \in ConcatOutcomes(d1, list) :
                disk' = IF out = -1 THEN d1
                        ELSE WriteFile(d1, "mp3", split_idx, out, <<>>)
  /\ idy' = idy + 1
  /\ UNCHANGED <<pc, next_i, idx, raised_by, split_idx, split_chunks,
                 inputVars, otherVars>>

SplitPartRaises ==
  /\ pc = "split"
  /\ idy < Len(split_chunks)
  /\ split_chunks[idy + 1]
  /\ CallTtsRaises(PartName(split_idx, idy))
  /\ UNCHANGED <<next_i, idx, length, last_clip_length, disk, splitVars,
                 inputVars, otherVars>>

\* the part timing files as _merge_timing_files reads them
SplitTimingFiles ==
  [k \in 1..Len(split_timings) |->
     IF HasFile(disk, "timings", PartName(split_idx, split_timings[k]))
       THEN TimelineFile(ReadFile(disk, "timings",
                                  PartName(split_idx, split_timings[k])).timings)
       ELSE MissingFile]

\* line 147 and line 249: there is a merged timeline to save
MergeToSave ==
  /\ word_by_word_text
  /\ split_timings # <<>>
  /\ MergeTimings(SplitTimingFiles, silence_duration) # <<>>

\* lines 146-148: the chunk loop is over; the merged timeline, if any, is saved
SplitMerge ==
  /\ pc = "split"
  /\ idy = Len(split_chunks)
  /\ disk' = IF MergeToSave
               THEN WriteFile(disk, "timings", split_idx, 0,
                              MergeTimings(SplitTimingFiles, silence_duration))
               ELSE disk
  /\ pc' = "cleanup"
  /\ UNCHANGED <<faults, next_i, idx, length, last_clip_length, calls, raised_by,
                 splitVars, inputVars, otherVars>>

\* line 250: save_word_timings raises OSError; neither _merge_timing_files
\* nor split_post nor run catches it
SplitMergeSaveFails ==
  /\ pc = "split"
  /\ idy = Len(split_chunks)
  /\ MergeToSave
  /\ faults < MaxFaults
  /\ faults' = faults + 1
  /\ pc' = "raised"
  /\ raised_by' = "merge_save"
  /\ UNCHANGED <<next_i, idx, length, last_clip_length, disk, calls,
                 splitVars, inputVars, otherVars>>

\* lines 151-156 for the first k entries of split_files
RECURSIVE Unlinked(_, _, _, _)
Unlinked(d, unit, files, k) ==
  IF k = 0 THEN d
  ELSE DeleteFile(DeleteFile(Unlinked(d, unit, files, k - 1),
                             "mp3", PartName(unit, files[k])),
                  "timings", PartName(unit, files[k]))

\* lines 150-156: every part file is deleted
SplitCleanup ==
  /\ pc = "cleanup"
  /\ disk' = Unlinked(disk, split_idx, split_files, Len(split_files))
  /\ pc' = "units"
  /\ UNCHANGED <<faults, next_i, idx, length, last_clip_length, calls, raised_by,
                 splitVars, inputVars, otherVars>>

\* lines 157-160: an unlink raises; the except clause ends the loop and the
\* remaining part files stay
SplitCleanupFails ==
  /\ pc = "cleanup"
  /\ faults < MaxFaults
  /\ faults' = faults + 1
  /\ \E k \in 0..(Len(split_files) - 1) :
       disk' = Unlinked(disk, split_idx, split_files, k)
  /\ pc' = "units"
  /\ UNCHANGED <<next_i, idx, length, last_clip_length, calls, raised_by,
                 splitVars, inputVars, otherVars>>

Next ==
  \/ RunTitle \/ RunTitleRaises
  \/ RunRollback \/ RunUnitDirect \/ RunUnitRaises \/ RunUnitSplit \/ RunLoopEnd
  \/ SplitSkipBlank \/ SplitPart \/ SplitPartRaises
  \/ SplitMerge \/ SplitMergeSaveFails \/ SplitCleanup \/ SplitCleanupFails

Spec == RunInit /\ [][Next]_vars

(***************************************************************************)
(* TimingStore: save_word_timings and load_word_timings                    *)
(* (utils/word_timing.py).  A text file is the sequence of its characters. *)
(* json.dump(timings, f, indent=2, ensure_ascii=False) writes the list one *)
(* record per block, keys in insertion order; json.load reads it back.     *)
(***************************************************************************)
AbsentText == [kind |-> "absent", chars |-> <<>>]
TextFile(cs) == [kind |-> "text", chars |-> cs]

DigitChars == <<"0", "1", "2", "3", "4", "5", "6", "7", "8", "9">>
IsDigit(c) == \E d \in 1..10 : DigitChars[d] = c
DigitValue(c) == (CHOOSE d \in 1..10 : DigitChars[d] = c) - 1

RECURSIVE NatRepr(_)
NatRepr(n) ==
  IF n < 10 THEN <<DigitChars[n + 1]>>
  ELSE NatRepr(n \div 10) \o <<DigitChars[(n % 10) + 1]>>

\* float.__repr__ of a whole number of ticks
FloatRepr(x) == NatRepr(x) \o <<".", "0">>

\* json.encoder: the escapes of a string under ensure_ascii=False
EscapeChar_Raw(c) == <<c>>

EscapeChar(c) ==
  CASE c = "\"" -> <<"\\", "\"">>
    [] c = "\\" -> <<"\\", "\\">>
    [] c = "\n" -> <<"\\", "n">>
    [] OTHER -> <<c>>

JsonString(w) ==
  (<<"\"">> \o Flatten([i \in 1..Len(w) |-> EscapeChar(w[i])])) \o <<"\"">>

KeyWord == <<"w", "o", "r", "d">>
KeyStart == <<"s", "t", "a", "r", "t">>
KeyEnd == <<"e", "n", "d">>

Indent(n) == [i \in 1..n |-> " "]

JsonMember(key, value) == ((Indent(4) \o JsonString(key)) \o <<":", " ">>) \o value

\* one {"word": ..., "start": ..., "end": ...} block at indent 2
JsonRecord(t) ==
  Indent(2) \o <<"{", "\n">>
    \o JsonMember(KeyWord, JsonString(t.word)) \o <<",", "\n">>
    \o JsonMember(KeyStart, FloatRepr(t.start)) \o <<",", "\n">>
    \o JsonMember(KeyEnd, FloatRepr(t.end)) \o <<"\n">>
    \o Indent(2) \o <<"}">>

RECURSIVE JsonRecords(_)
JsonRecords(timings) ==
  IF Len(timings) = 1 THEN JsonRecord(timings[1])
  ELSE (JsonRecord(timings[1]) \o <<",", "\n">>) \o JsonRecords(Tail(timings))

\* line 57: json.dump(timings, f, indent=2, ensure_ascii=False)
JsonDump(timings) ==
  IF timings = <<>> THEN <<"[", "]">>
  ELSE (<<"[", "\n">> \o JsonRecords(timings)) \o <<"\n", "]">>

\* json.decoder: the result of a scan is [ok, val, next]
ScanFailed == [ok |-> FALSE, val |-> <<>>, next |-> 0]

RECURSIVE SkipWs(_, _)
SkipWs(s, p) == IF p <= Len(s) /\ s[p] \in {" ", "\n"} THEN SkipWs(s, p + 1) ELSE p

At(s, p, c) == p <= Len(s) /\ s[p] = c

\* the characters of a string literal, from after its opening quote
RECURSIVE ScanString(_, _, _)
ScanString(s, p, acc) ==
  IF p > Len(s) THEN ScanFailed
  ELSE IF s[p] = "\"" THEN [ok |-> TRUE, val |-> acc, next |-> p + 1]
  ELSE IF s[p] = "\n" THEN ScanFailed
  ELSE IF s[p] = "\\"
    THEN IF At(s, p + 1, "n") THEN ScanString(s, p + 2, Append(acc, "\n"))
         ELSE IF At(s, p + 1, "\"") \/ At(s, p + 1, "\\")
           THEN ScanString(s, p + 2, Append(acc, s[p + 1]))
         ELSE ScanFailed
  ELSE ScanString(s, p + 1, Append(acc, s[p]))

ParseString(s, p) == IF At(s, p, "\"") THEN ScanString(s, p + 1, <<>>) ELSE ScanFailed

RECURSIVE ScanDigits(_, _, _)
ScanDigits(s, p, acc) ==
  IF p <= Len(s) /\ IsDigit(s[p])
    THEN ScanDigits(s, p + 1, acc * 10 + DigitValue(s[p]))
    ELSE [ok |-> TRUE, val |-> acc, next |-> p]

\* a number literal; a fraction other than 0 is not a whole number of ticks
ParseNumber(s, p) ==
  IF ~(p <= Len(s) /\ IsDigit(s[p])) THEN ScanFailed
  ELSE LET int == ScanDigits(s, p, 0)
       IN  IF At(s, int.next, ".")
             THEN IF int.next + 1 <= Len(s) /\ IsDigit(s[int.next + 1])
                    THEN LET frac == ScanDigits(s, int.next + 1, 0)
                         IN  [ok |-> frac.val = 0, val |-> int.val, next |-> frac.next]
                    ELSE ScanFailed
             ELSE int

\* the members of an object, from the start of a member
RECURSIVE ScanMembers(_, _, _)
ScanMembers(s, p, acc) ==
  LET k == ParseString(s, p)
      c == SkipWs(s, k.next)
      v == SkipWs(s, c + 1)
      isstr == At(s, v, "\"")
      sv == ParseString(s, v)
      nv == ParseNumber(s, v)
      ok == IF isstr THEN sv.ok ELSE nv.ok
      nxt == SkipWs(s, IF isstr THEN sv.next ELSE nv.next)
      member == [key |-> k.val, isstr |-> isstr,
                 str |-> IF isstr THEN sv.val ELSE <<>>,
                 num |-> IF isstr THEN 0 ELSE nv.val]
  IN  IF ~k.ok THEN ScanFailed
      ELSE IF ~At(s, c, ":") THEN ScanFailed
      ELSE IF ~ok THEN ScanFailed
      ELSE IF At(s, nxt, ",") THEN ScanMembers(s, SkipWs(s, nxt + 1), Append(acc, member))
      ELSE IF At(s, nxt, "}") THEN [ok |-> TRUE, val |-> Append(acc, member), next |-> nxt + 1]
      ELSE ScanFailed

ParseObject(s, p) ==
  IF ~At(s, p, "{") THEN ScanFailed
  ELSE LET q == SkipWs(s, p + 1)
       IN  IF At(s, q, "}") THEN [ok |-> TRUE, val |-> <<>>, next |-> q + 1]
           ELSE ScanMembers(s, q, <<>>)

\* a dict that is not a {word, start, end} record of the model
NotATiming == [word |-> <<>>, start |-> -1, end |-> -1]

\* the dict the members make, as a timing record
AsTiming(members) ==
  IF /\ Len(members) = 3
     /\ members[1].key = KeyWord /\ members[1].isstr
     /\ members[2].key = KeyStart /\ ~members[2].isstr
     /\ members[3].key = KeyEnd /\ ~members[3].isstr
    THEN [word |-> members[1].str, start |-> members[2].num, end |-> members[3].num]
    ELSE NotATiming

\* the elements of an array, from the start of an element
RECURSIVE ScanElements(_, _, _)
ScanElements(s, p, acc) ==
  LET o == ParseObject(s, p)
      nxt == SkipWs(s, o.next)
  IN  IF ~o.ok THEN ScanFailed
      ELSE IF At(s, nxt, ",")
        THEN ScanElements(s, SkipWs(s, nxt + 1), Append(acc, AsTiming(o.val)))
      ELSE IF At(s, nxt, "]")
        THEN [ok |-> TRUE, val |-> Append(acc, AsTiming(o.val)), next |-> nxt + 1]
      ELSE ScanFailed

\* line 78: json.load(f) of a list of objects; text after the list is an error
JsonLoad(s) ==
  LET p == SkipWs(s, 1)
      q == SkipWs(s, p + 1)
      r == IF At(s, q, "]") THEN [ok |-> TRUE, val |-> <<>>, next |-> q + 1]
           ELSE ScanElements(s, q, <<>>)
  IN  IF ~At(s, p, "[") THEN ScanFailed
      ELSE IF ~r.ok THEN ScanFailed
      ELSE IF SkipWs(s, r.next) <= Len(s) THEN ScanFailed
      ELSE r

\* words as str.split() leaves them and as a caller may hand them in, with
\* the characters JSON escapes or gives a meaning to
StoreWords == {<<"a">>, <<"a", "\"">>, <<"\\", "n">>, <<"}", ",">>, <<"\n">>}
StoreTicks == {0, 1, 10}
StoreRecords ==
  { t \in [word : StoreWords, start : StoreTicks, end : StoreTicks] : t.start <= t.end }

StoreInit ==
  /\ store_timings \in SeqsUpTo(StoreRecords, MaxStoreLen)
  /\ store_file = AbsentText
  /\ store_loaded = <<>>
  /\ store_pc = "save"
  /\ IdleSeg /\ IdleEst /\ IdleSettings /\ IdleMerge /\ IdleSched /\ IdleRun
  /\ IdleRender

nonStoreVars == <<segVars, estVars, settingsVars, mergeVars, schedVars, runVars,
                  renderVars>>

\* save_word_timings(timings, filepath), lines 55-57
StoreSave ==
  /\ store_pc = "save"
  /\ store_file' = TextFile(JsonDump(store_timings))
  /\ store_pc' = "load"
  /\ UNCHANGED <<store_timings, store_loaded, nonStoreVars>>

\* lines 55-56: mkdir or open raises OSError
StoreSaveFails ==
  /\ store_pc = "save"
  /\ store_pc' = "raised"
  /\ UNCHANGED <<store_timings, store_file, store_loaded, nonStoreVars>>

\* load_word_timings(filepath), lines 77-78
StoreLoad ==
  /\ store_pc = "load"
  /\ LET r == JsonLoad(store_file.chars)
     IN  IF store_file.kind = "text" /\ r.ok
           THEN store_loaded' = r.val /\ store_pc' = "loaded"
           ELSE store_loaded' = store_loaded /\ store_pc' = "raised"
  /\ UNCHANGED <<store_timings, store_file, nonStoreVars>>

StoreNext == StoreSave \/ StoreSaveFails \/ StoreLoad

SpecStore == StoreInit /\ [][StoreNext]_vars

(***************************************************************************)
(* Render scope of make_final_video (lines 552-623) and the ProgressFfmpeg *)
(* thread (lines 30-68).  The main thread and the observer threads         *)
(* interleave at the steps below.  Output times are ticks; a line of the   *)
(* progress file is the value of its out_time_ms, or NotAvailable for N/A. *)
(***************************************************************************)
NotAvailable == -1
RenderLengths == {2}
Renders == {1, 2}

\* lines 31-36: a thread object that was not started yet
NewObserver == [pc |-> "unstarted", stop |-> FALSE, pos |-> 0, latest |-> NotAvailable,
                old |-> 0]

\* line 555: round(progress * 100, 2) for progress = out / vid_duration_seconds
Status(out, duration) == (out * 100) \div duration

\* the largest output time ffmpeg has reported in a progress file
LastOutTime(lines) == SetMax({0} \cup { lines[i] : i \in DOMAIN lines })

\* lines 46-58: the first out_time_ms line among the lines not read before
\* decides; N/A or no line gives None
LatestMsProgress(lines, pos) ==
  IF pos < Len(lines) THEN lines[pos + 1] ELSE NotAvailable

RenderInit ==
  /\ allowOnlyTTSFolder \in BOOLEAN
  /\ vid_duration \in RenderLengths
  /\ render_no = 1
  /\ main_pc = "enter"
  /\ main_old = 0
  /\ pbar_n = 0
  /\ pbar_writers = {}
  /\ observers = [k \in Renders |-> NewObserver]
  /\ progress_files = [k \in Renders |-> <<>>]
  /\ callback_log = <<>>
  /\ IdleSeg /\ IdleEst /\ IdleSettings /\ IdleMerge /\ IdleSched /\ IdleRun
  /\ IdleStore

nonRenderVars == <<segVars, estVars, settingsVars, mergeVars, schedVars, runVars,
                   storeVars>>
renderInputs == <<allowOnlyTTSFolder, vid_duration>>

\* lines 560 and 594, __enter__ (63-65): the observer thread is started
MainEnter ==
  /\ main_pc = "enter"
  /\ observers' = [observers EXCEPT ![render_no].pc = "check"]
  /\ main_pc' = "render"
  /\ UNCHANGED <<render_no, main_old, pbar_n, pbar_writers, progress_files,
                 callback_log, renderInputs, nonRenderVars>>

\* ffmpeg, run at lines 566-582 and 596-612, writes one more progress block:
\* N/A while it has no output time to report, then output times that never
\* decrease
FfmpegProgress ==
  /\ main_pc = "render"
  /\ Len(progress_files[render_no]) < MaxProgressLines
  /\ \E line \in (IF progress_files[render_no] = <<>> THEN {NotAvailable} ELSE {}) \cup
                 (LastOutTime(progress_files[render_no])..vid_duration) :
       progress_files' = [progress_files EXCEPT ![render_no] = Append(@, line)]
  /\ UNCHANGED <<render_no, main_pc, main_old, pbar_n, pbar_writers, observers,
                 callback_log, renderInputs, nonRenderVars>>

\* ffmpeg returns; __exit__ (67-68) sets the stop event and does not join
RenderSucceeds ==
  /\ main_pc = "render"
  /\ observers' = [observers EXCEPT ![render_no].stop = TRUE]
  /\ main_pc' = "read_n"
  /\ UNCHANGED <<render_no, main_old, pbar_n, pbar_writers, progress_files,
                 callback_log, renderInputs, nonRenderVars>>

\* lines 583-585 and 613-615: ffmpeg.Error, exit(1); SystemExit leaves the
\* with block through __exit__ and ends make_final_video
RenderFails ==
  /\ main_pc = "render"
  /\ observers' = [observers EXCEPT ![render_no].stop = TRUE]
  /\ main_pc' = "failed"
  /\ UNCHANGED <<render_no, main_old, pbar_n, pbar_writers, progress_files,
                 callback_log, renderInputs, nonRenderVars>>

\* lines 586 and 617: old_percentage = pbar.n
MainReadN ==
  /\ main_pc = "read_n"
  /\ main_old' = pbar_n
  /\ main_pc' = "update"
  /\ UNCHANGED <<render_no, pbar_n, pbar_writers, observers, progress_files,
                 callback_log, renderInputs, nonRenderVars>>

\* lines 587-588 and 618: pbar.update(100 - old_percentage), then the
\* OnlyTTS render if it is asked for
MainUpdate ==
  /\ main_pc = "update"
  /\ pbar_n' = pbar_n + (100 - main_old)
  /\ pbar_writers' = pbar_writers \cup {"main"}
  /\ main_old' = 0
  /\ IF allowOnlyTTSFolder /\ render_no = 1
       THEN main_pc' = "enter" /\ render_no' = 2
       ELSE main_pc' = "cleanup" /\ render_no' = render_no
  /\ UNCHANGED <<observers, progress_files, callback_log, renderInputs,
                 nonRenderVars>>

\* lines 619-623: pbar.close(), save_data, cleanup(reddit_id) removes the
\* temporary directory
MainCleanup ==
  /\ main_pc = "cleanup"
  /\ main_pc' = "done"
  /\ UNCHANGED <<render_no, main_old, pbar_n, pbar_writers, observers, progress_files,
                 callback_log, renderInputs, nonRenderVars>>

mainVars == <<render_no, main_pc, main_old>>

\* line 39: while not self.stop_event.is_set()
ObsCheck(k) ==
  /\ observers[k].pc = "check"
  /\ observers' = [observers EXCEPT ![k].pc = IF observers[k].stop THEN "ended" ELSE "read"]
  /\ UNCHANGED <<mainVars, pbar_n, pbar_writers, progress_files, callback_log,
                 renderInputs, nonRenderVars>>

\* lines 40-41: latest_progress = self.get_latest_ms_progress()
ObsRead(k) ==
  /\ observers[k].pc = "read"
  /\ LET latest == LatestMsProgress(progress_files[k], observers[k].pos)
     IN  observers' = [observers EXCEPT
                         ![k].latest = latest,
                         ![k].pos = Len(progress_files[k]),
                         ![k].pc = IF latest = NotAvailable THEN "sleep" ELSE "call"]
  /\ UNCHANGED <<mainVars, pbar_n, pbar_writers, progress_files, callback_log,
                 renderInputs, nonRenderVars>>

\* lines 42-43 and 555-556: the callback is entered with latest / duration
\* and reads pbar.n
ObsCallbackRead(k) ==
  /\ observers[k].pc = "call"
  /\ callback_log' = Append(callback_log, [render |-> k, out |-> observers[k].latest])
  /\ observers' = [observers EXCEPT ![k].old = pbar_n, ![k].pc = "update"]
  /\ UNCHANGED <<mainVars, pbar_n, pbar_writers, progress_files,
                 renderInputs, nonRenderVars>>

\* line 557: pbar.update(status - old_percentage)
ObsCallbackUpdate(k) ==
  /\ observers[k].pc = "update"
  /\ pbar_n' = pbar_n + (Status(observers[k].latest, vid_duration) - observers[k].old)
  /\ pbar_writers' = pbar_writers \cup {"observer"}
  /\ observers' = [observers EXCEPT ![k].latest = NotAvailable, ![k].old = 0,
                                    ![k].pc = "sleep"]
  /\ UNCHANGED <<mainVars, progress_files, callback_log, renderInputs, nonRenderVars>>

\* line 44: time.sleep(1) is over
ObsSleep(k) ==
  /\ observers[k].pc = "sleep"
  /\ observers' = [observers EXCEPT ![k].pc = "check"]
  /\ UNCHANGED <<mainVars, pbar_n, pbar_writers, progress_files, callback_log,
                 renderInputs, nonRenderVars>>

RenderNext ==
  \/ MainEnter \/ FfmpegProgress \/ RenderSucceeds \/ RenderFails
  \/ MainReadN \/ MainUpdate \/ MainCleanup
  \/ \E k \in Renders : ObsCheck(k)
  \/ \E k \in Renders : ObsRead(k)
  \/ \E k \in Renders : ObsCallbackRead(k)
  \/ \E k \in Renders : ObsCallbackUpdate(k)
  \/ \E k \in Renders : ObsSleep(k)

SpecRender == RenderInit /\ [][RenderNext]_vars

(***************************************************************************)
(* Claims on the segmenter                                                 *)
(***************************************************************************)
\* C6: every chunk the segmenter produces has at most max_chars characters.
C6_ChunkWithinMaxChars ==
  seg_pc = "done" =>
    \A i \in DOMAIN split_text : Len(split_text[i]) <= seg_max_chars

\* C7: the chunks, in order, hold every non-whitespace character of the text
\* exactly once and in the original order.
C7_ChunksKeepAllText ==
  seg_pc = "done" => NonSpace(Flatten(split_text)) = NonSpace(seg_text)

(***************************************************************************)
(* Claims on the estimator                                                 *)
(***************************************************************************)
\* C8: for a text of n >= 1 words and a duration > 0 the estimate has exactly
\* n records, in word order, that evenly partition [0, duration]: first start
\* 0, each end equal to the next start, start < end, every width duration/n,
\* last end equal to the duration.
C8_EvenPartition ==
  (est_pc # "call" /\ StrSplit(est_text) # <<>> /\ est_duration > 0) =>
    LET words == StrSplit(est_text)
        n == Len(words)
        tl == est_result.timings
    IN  /\ est_pc = "returned"
        /\ Len(tl) = n
        /\ \A i \in 1..n : tl[i].word = words[i]
        /\ tl[1].start = 0
        /\ \A i \in 1..(n - 1) : tl[i].end = tl[i + 1].start
        /\ \A i \in 1..n : tl[i].start < tl[i].end
        /\ \A i \in 1..n : (tl[i].end - tl[i].start) * n = est_duration
        /\ tl[n].end = est_duration

C8_Witness ==
  /\ est_pc = "returned"
  /\ Len(StrSplit(est_text)) = 2
  /\ est_duration = 2 * DurUnit
  /\ Len(est_result.timings) = 2
  /\ est_result.timings[2].end = est_duration

\* C9: a call with duration <= 0 fails with the invalid-duration error for
\* every text, wordless text included; it never returns a timeline.
C9_NonPositiveDurationRaises ==
  (est_pc # "call" /\ est_duration <= 0) => est_pc = "raised"

(***************************************************************************)
(* Claims on the timing merge                                              *)
(***************************************************************************)
\* the offset the claim gives part p: 0 for the first part, and for each later
\* part the shifted end of the previous part's last word plus the gap
RECURSIVE ClaimedOffset(_, _, _)
ClaimedOffset(parts, gap, p) ==
  IF p = 1 THEN 0
  ELSE ClaimedOffset(parts, gap, p - 1) + parts[p - 1][Len(parts[p - 1])].end + gap

ExampleA == <<[word |-> "a", start |-> 0, end |-> 2]>>
ExampleB == <<[word |-> "b", start |-> 0, end |-> 4]>>
ExampleMerged == <<[word |-> "a", start |-> 0, end |-> 2],
                   [word |-> "b", start |-> 3, end |-> 7]>>

\* C4: merging non-empty part timelines with gap g yields all records in part
\* order, part 0 unshifted, each later part shifted by the shifted end of the
\* previous part's last word plus g; [{a,0,1}] and [{b,0,2}] with g = 0.5
\* (in ticks of half a second: [{a,0,2}], [{b,0,4}], g = 1) give
\* [{a,0,1},{b,1.5,3.5}] (in ticks: [{a,0,2},{b,3,7}]).
C4_MergeOffsets ==
  (/\ merge_pc = "done"
   /\ timing_files # <<>>
   /\ \A p \in DOMAIN timing_files :
        timing_files[p].kind = "timeline" /\ timing_files[p].timings # <<>>) =>
    LET parts == [p \in DOMAIN timing_files |-> timing_files[p].timings]
        gap == silence_duration
    IN  /\ output_file.kind = "timeline"
        /\ output_file.timings =
             Flatten([p \in DOMAIN parts |->
                        [j \in DOMAIN parts[p] |->
                           [word |-> parts[p][j].word,
                            start |-> parts[p][j].start + ClaimedOffset(parts, gap, p),
                            end |-> parts[p][j].end + ClaimedOffset(parts, gap, p)]]])
        /\ (parts = <<ExampleA, ExampleB>> /\ gap = 1)
             => output_file.timings = ExampleMerged

C4_Witness ==
  /\ merge_pc = "done"
  /\ timing_files = <<TimelineFile(ExampleA), TimelineFile(ExampleB)>>
  /\ silence_duration = 1
  /\ output_file = TimelineFile(ExampleMerged)

\* the timelines of the parts that have one, in list order
PartsWithWords ==
  LET kept == SelectSeq(timing_files,
                        LAMBDA f : f.kind = "timeline" /\ f.timings # <<>>)
  IN  [p \in DOMAIN kept |-> kept[p].timings]

\* C22: a part whose timing data is missing, malformed or empty contributes
\* no record and leaves the running offset as it is, gap included, and the
\* later parts are shifted exactly as if that part were not in the list.
C22_PartWithoutTimingsIsSkipped ==
  merge_pc = "done" =>
    LET parts == PartsWithWords
        gap == silence_duration
    IN  IF parts = <<>> THEN output_file = MissingFile
        ELSE /\ output_file.kind = "timeline"
             /\ output_file.timings =
                  Flatten([p \in DOMAIN parts |->
                             ShiftPart(parts[p], ClaimedOffset(parts, gap, p))])

\* a malformed, a missing and an empty part around two parts that have words
C22_Witness ==
  /\ merge_pc = "done"
  /\ Len(timing_files) = 3
  /\ timing_files[1] = TimelineFile(ExampleA)
  /\ timing_files[2] \in {MissingFile, MalformedFile, TimelineFile(<<>>)}
  /\ timing_files[3] = TimelineFile(ExampleB)
  /\ silence_duration = 1
  /\ output_file = TimelineFile(ExampleMerged)

(***************************************************************************)
(* Claims on the overlay scheduler                                         *)
(***************************************************************************)
RECURSIVE SumTo(_, _)
SumTo(ds, k) == IF k = 0 THEN 0 ELSE ds[k] + SumTo(ds, k - 1)

\* the captions emitted for unit u, in emission order
CaptionsOf(u) == SelectSeq(directives, LAMBDA x : x.kind = "caption" /\ x.unit = u)

ExampleTimeline == <<[word |-> "hi", start |-> 0, end |-> 1],
                     [word |-> "there", start |-> 1, end |-> 2]>>
ExampleCaptions ==
  <<[kind |-> "caption", unit |-> 0, text |-> <<"hi">>,
     windowStart |-> 0, windowEnd |-> 1],
    [kind |-> "caption", unit |-> 0, text |-> <<"hi", " ", "there">>,
     windowStart |-> 1, windowEnd |-> 3]>>

ImagesOf(u) == SelectSeq(directives, LAMBDA x : x.kind = "image" /\ x.unit = u)

\* the timing file pass u opens is missing, not JSON, or holds no word
NoTimeline(u) ==
  \/ sched_timings[u + 1].kind = "missing"
  \/ sched_timings[u + 1].kind = "malformed"
  \/ (sched_timings[u + 1].kind = "timeline" /\ sched_timings[u + 1].timings = <<>>)

\* C11: a unit whose timing file is missing, malformed or holds an empty
\* timeline gets no caption, its image directive is still emitted with the
\* window [sum of earlier durations, that sum + own duration], the cursor
\* still advances by its duration, and the units after it are scheduled as if
\* nothing had happened.
C11_NoTimelineNoCaptions ==
  (sched_pc # Idle /\ word_by_word_text) =>
    /\ current_time = SumTo(audio_clips_durations, sched_i)
    /\ \A u \in 0..(sched_i - 1) :
         /\ ImagesOf(u) = <<[kind |-> "image", unit |-> u, text |-> <<>>,
                             windowStart |-> SumTo(audio_clips_durations, u),
                             windowEnd |-> SumTo(audio_clips_durations, u + 1)]>>
         /\ NoTimeline(u) => CaptionsOf(u) = <<>>
         /\ ~NoTimeline(u) =>
              /\ Len(CaptionsOf(u)) = Len(sched_timings[u + 1].timings)
              /\ CaptionsOf(u)[1].windowStart =
                   SumTo(audio_clips_durations, u) + sched_timings[u + 1].timings[1].start

\* a malformed file, then an empty timeline, then a unit that has captions
C11_Witness ==
  /\ sched_pc = "done"
  /\ word_by_word_text
  /\ number_of_clips >= 2
  /\ sched_timings[1] = MalformedFile
  /\ sched_timings[2] = TimelineFile(<<>>)
  /\ sched_timings[3] = TimelineFile(ExampleTimeline)
  /\ CaptionsOf(0) = <<>> /\ CaptionsOf(1) = <<>>
  /\ Len(CaptionsOf(2)) = 2
  /\ CaptionsOf(2)[1].windowStart = audio_clips_durations[1] + audio_clips_durations[2]
  /\ Len(ImagesOf(0)) = 1 /\ Len(ImagesOf(1)) = 1

\* the image directives emitted so far, in emission order
Images == SelectSeq(directives, LAMBDA x : x.kind = "image")

\* the image windows are those of the first n units of ds, back to back from 0
WindowsTile(ds, n) ==
  /\ Len(Images) = n
  /\ \A i \in 1..n :
       /\ Images[i].windowStart = SumTo(ds, i - 1)
       /\ Images[i].windowEnd = SumTo(ds, i)

\* C12: the cursor starts at 0 and moves on by each unit's audio duration,
\* captions or not, so that the image window of the i-th unit in render order
\* is [sum of the durations before it, that sum + its own duration] and the
\* image windows tile [0, sum of all unit durations]; the units in render
\* order are the audio files concatenated into the audio track.
C12_ImageWindowsTile ==
  sched_pc # Idle =>
    /\ sched_i <= Len(audio_clips) => current_time = SumTo(audio_clips, sched_i)
    /\ sched_pc = "done" => WindowsTile(audio_clips, Len(audio_clips))

\* C12 over the units the overlay code passes over, in every mode
C12_OverScheduledUnits ==
  sched_pc # Idle =>
    /\ current_time = SumTo(audio_clips_durations, sched_i)
    /\ WindowsTile(audio_clips_durations, sched_i)
    /\ (sched_pc = "done" /\ narration_mode = "comments")
         => WindowsTile(audio_clips, Len(audio_clips))

(***************************************************************************)
(* Claims on the timing store                                              *)
(***************************************************************************)
\* C13: for every non-empty timeline, saving it to a path and then loading
\* that path returns an equal ordered sequence of {word, start, end} records.
C13_SaveLoadRoundTrip ==
  (store_pc = "loaded" /\ store_timings # <<>>) => store_loaded = store_timings

\* a word with a quote and a word with a backslash went through the file
C13_Witness ==
  /\ store_pc = "loaded"
  /\ Len(store_timings) = 2
  /\ store_timings[1].word = <<"a", "\"">>
  /\ store_timings[2].word = <<"\\", "n">>
  /\ store_timings[2].end = 10
  /\ store_loaded = store_timings

\* a save that succeeded is followed by a load that does not raise
C13_LoadNeverRaises ==
  (store_pc = "raised") => store_file = AbsentText

(***************************************************************************)
(* Claims on the render scope                                              *)
(***************************************************************************)
\* every ProgressFfmpeg thread that was started has left its loop
ObserversEnded ==
  \A k \in Renders : observers[k].pc \in {"unstarted", "ended"}

\* an observer thread that is inside its polling loop
Polling(k) == observers[k].pc \in {"check", "read", "call", "update", "sleep"}

\* C14: whenever a render completes successfully, the progress callback is
\* invoked at least once with fraction exactly 1.0, that is with an output
\* time equal to the duration it divides by.
C14_CallbackGetsOne ==
  (main_pc = "done" /\ ObserversEnded) =>
    \E i \in DOMAIN callback_log : callback_log[i].out = vid_duration

\* C15: with output times that never decrease within a render, the fractions
\* passed to the callback during one make_final_video call, the OnlyTTS
\* render included, never decrease.
C15_FractionsNeverDecrease ==
  main_pc # Idle =>
    \A i, j \in DOMAIN callback_log :
      i < j => callback_log[i].out <= callback_log[j].out

\* C15 for the calls made by the observer of one render
C15_WithinOneRender ==
  main_pc # Idle =>
    \A i, j \in DOMAIN callback_log :
      (i < j /\ callback_log[i].render = callback_log[j].render)
        => callback_log[i].out <= callback_log[j].out

\* C16: on every exit path from the render scope the observer has been
\* signalled to stop, and its polling loop has ended before the removal of
\* the temporary resources begins.
C16_ObserverEndedBeforeCleanup ==
  main_pc # Idle =>
    /\ \A k \in Renders :
         (observers[k].pc # "unstarted" /\ ~(main_pc = "render" /\ render_no = k))
           => observers[k].stop
    /\ main_pc = "done" => ObserversEnded

\* C16, the part on the stop signal alone
C16_StopSignalled ==
  main_pc # Idle =>
    \A k \in Renders :
      (observers[k].pc # "unstarted" /\ ~(main_pc = "render" /\ render_no = k))
        => observers[k].stop

\* C20: the progress target is written only by the observer through the
\* callback, and the main thread never reads and updates it while an
\* observer thread is still running.
C20_SingleWriter ==
  main_pc # Idle =>
    /\ pbar_writers \subseteq {"observer"}
    /\ ~(main_pc \in {"read_n", "update"} /\ \E k \in Renders : Polling(k))

\* the main thread and an observer are both between reading pbar.n and
\* updating it
C20_BothMidUpdate ==
  main_pc = "update" /\ \E k \in Renders : observers[k].pc = "update"

\* everything has ended and the bar is not at 100
C20_BarNotFull == main_pc = "done" /\ ObserversEnded /\ pbar_n # 100

(***************************************************************************)
(* Claims on the orchestrator                                              *)
(***************************************************************************)
\* total of the first k durations the synthesizer produced
RECURSIVE CallsTotal(_)
CallsTotal(k) == IF k = 0 THEN 0 ELSE calls[k].dur + CallsTotal(k - 1)

\* a run in comment mode in which no text was split and nothing failed; unit 0
\* is the title, unit u > 0 is comment u - 1, and calls[u + 1] synthesized it
PlainCommentRun ==
  /\ pc = "done"
  /\ narration_mode = "comments"
  /\ long_units = {}
  /\ faults = 0

\* unit u is the first whose synthesis takes the total over the budget
FirstOverBudget(u) == CallsTotal(u) <= max_length /\ CallsTotal(u + 1) > max_length

\* C1: in comment mode, if unit k > 1 is the first whose synthesis takes
\* totalElapsed over maxTotalDuration, run returns the sum of the durations of
\* the units before k and lastIndex = k - 1, whether or not a unit follows k;
\* durations [5, 5, 40] with budget 30 return 10 and 1.
C1_RollbackToPreviousUnit ==
  PlainCommentRun =>
    /\ \A u \in 2..(Len(calls) - 1) :
         FirstOverBudget(u) => (length = CallsTotal(u) /\ idx = u - 1)
    /\ ([k \in DOMAIN calls |-> calls[k].dur] = <<5, 5, 40>> /\ max_length = 30)
         => (length = 10 /\ idx = 1)

\* C1 where a unit follows unit k in the narrative: the part the code meets
C1_WhenAUnitFollows ==
  PlainCommentRun =>
    \A u \in 2..(Len(calls) - 1) :
      (FirstOverBudget(u) /\ u < n_units) => (length = CallsTotal(u) /\ idx = u - 1)

\* C2: a unit whose duration probe fails contributes exactly 0: the total of
\* the units before it is unchanged, nothing is raised, the run goes on.
C2_ProbeFailureAddsZero ==
  pc # Idle =>
    /\ \A k \in DOMAIN calls :
         (calls[k].synth_ok /\ ~calls[k].probe_ok) => calls[k].after = calls[k].before
    /\ pc = "raised" => raised_by # "probe"

\* the chunk loop of the running split_post is over
ChunkLoopOver == pc = "cleanup" \/ (pc = "split" /\ idy = Len(split_chunks))

\* C3: for a split unit with k retained parts the final concatenation list
\* holds the k part entries in ascending part index, each immediately followed
\* by one silence entry.
C3_SilenceAfterEveryPart ==
  (pc # Idle /\ ChunkLoopOver /\ split_files # <<>>) =>
    list_txt = Flatten([k \in 1..Len(split_files) |->
                          <<PartName(split_idx, split_files[k]), SilenceName>>])

\* C10: a run ends with an error only when the synthesizer fails, and then no
\* later unit is synthesized; probe failures, timing estimation or save
\* failures, missing or malformed part timing files and failed deletions of
\* part files never end the run.
C10_OnlySynthesisIsFatal ==
  pc # Idle =>
    /\ pc = "raised" => raised_by = "synth"
    /\ \A k \in DOMAIN calls : ~calls[k].synth_ok => (pc = "raised" /\ k = Len(calls))

\* run left its loop through the rollback of lines 93-96: RunLoopEnd needs
\* the comments exhausted, RunRollback a comment still to come
RolledBack == pc = "done" /\ narration_mode = "comments" /\ next_i < n_units

\* C17: in comment mode, whenever run performs a budget rollback the
\* totalDuration it returns is at most maxTotalDuration, also when the title
\* plus the first unit already exceed the budget; here for the runs in which
\* no text is split and nothing fails.
C17_RollbackWithinBudget ==
  (RolledBack /\ long_units = {} /\ faults = 0) => length <= max_length

\* the synthesizer failed on a part of the split unit split_idx
PartSynthesisFailed ==
  /\ pc = "raised"
  /\ raised_by = "synth"
  /\ calls[Len(calls)].name.part >= 0

\* the part files of the unit split_idx that are on disk
PartFilesLeft ==
  { f \in disk : /\ f.name.stem = split_idx.stem
                 /\ f.name.i = split_idx.i
                 /\ f.name.part >= 0 }

\* C18: if the synthesizer fails on part j of a split unit, then when the
\* failure leaves the split path no part audio file and no part timing file
\* of that unit is on disk, and the audio files of the units completed
\* before are as they were written.
C18_NoPartFilesAfterFailure ==
  (pc # Idle /\ PartSynthesisFailed) =>
    /\ PartFilesLeft = {}
    /\ \A k \in DOMAIN calls :
         (calls[k].synth_ok /\ calls[k].name.part = -1) =>
           /\ HasFile(disk, "mp3", calls[k].name)
           /\ ReadFile(disk, "mp3", calls[k].name).dur = calls[k].dur

\* C18, the part on the units completed before
C18_EarlierUnitsKept ==
  (pc # Idle /\ PartSynthesisFailed) =>
    \A k \in DOMAIN calls :
      (calls[k].synth_ok /\ calls[k].name.part = -1) =>
        /\ HasFile(disk, "mp3", calls[k].name)
        /\ ReadFile(disk, "mp3", calls[k].name).dur = calls[k].dur

\* two directives that exclude each other: two images, or two captions of
\* one unit
SameLayer(a, b) ==
  \/ (a.kind = "image" /\ b.kind = "image")
  \/ (a.kind = "caption" /\ b.kind = "caption" /\ a.unit = b.unit)

\* C19: windows are half-open [windowStart, windowEnd): at no time are two
\* captions of one unit visible together, nor two units' images; at an
\* instant shared by two consecutive windows only the later one is visible.
C19_OneDirectiveVisible ==
  sched_pc # Idle =>
    \A t \in 0..current_time :
      \A i, j \in DOMAIN directives :
        (i < j /\ SameLayer(directives[i], directives[j]) /\ Visible(directives[j], t))
          => ~Visible(directives[i], t)

\* C19 away from the instants two windows share
C19_DisjointInteriors ==
  sched_pc # Idle =>
    \A i, j \in DOMAIN directives :
      (i < j /\ SameLayer(directives[i], directives[j]))
        => directives[i].windowEnd <= directives[j].windowStart

\* the calls of call_tts made for comment u, whole or in parts
CallsOfUnit(u) ==
  { k \in DOMAIN calls : calls[k].name.stem = "comment" /\ calls[k].name.i = u }

\* self.length when the synthesis of comment u began; a comment all of whose
\* chunks were blank made no call
LengthBeforeUnit(u) ==
  IF CallsOfUnit(u) = {} THEN calls[Len(calls)].after
  ELSE calls[CHOOSE k \in CallsOfUnit(u) : \A m \in CallsOfUnit(u) : k <= m].before

\* C21: on a budget rollback the amount subtracted is all that the unit just
\* before added, also when that unit was synthesized as several parts; after
\* the rollback totalElapsed is what it was before that unit was synthesized.
\* Stated for the runs in which nothing fails and that unit was synthesized.
C21_RollbackUndoesWholeUnit ==
  (RolledBack /\ faults = 0 /\ CallsOfUnit(next_i - 1) # {})
    => length = LengthBeforeUnit(next_i - 1)

\* C21 for the runs in which no text is split
C21_WhenNothingIsSplit ==
  (RolledBack /\ faults = 0 /\ long_units = {}) => length = LengthBeforeUnit(next_i - 1)

\* a step of the cleanup of split_post that deletes at least one file
PartFilesDeleted == pc = "cleanup" /\ pc' = "units" /\ disk' # disk

\* C23: the part audio and part timing files of a split unit are deleted only
\* after the unit-level concatenation has succeeded, never when it failed or
\* left no unit-level file.
C23_DeleteOnlyAfterConcat ==
  [][PartFilesDeleted => HasFile(disk, "mp3", split_idx)]_vars

\* the part files list.txt names, in its order
ListedParts == SelectSeq(list_txt, LAMBDA n : n.part >= 0)

\* C24: each time the concatenation is invoked for a split unit, list.txt
\* names exactly the part files of the retained chunks synthesized so far, in
\* ascending part order, and never a part of a dropped chunk or of a chunk
\* not synthesized yet.
C24_ListNamesSynthesizedParts ==
  (pc \in {"split", "cleanup"} /\ split_files # <<>>) =>
    ListedParts = [k \in 1..Len(split_files) |-> PartName(split_idx, split_files[k])]

\* C24 for a unit none of whose chunks is dropped, once its last part is
\* synthesized
C24_AfterLastPartOfFullUnit ==
  (/\ pc \in {"split", "cleanup"}
   /\ split_files # <<>>
   /\ idy = Len(split_chunks)
   /\ \A y \in DOMAIN split_chunks : split_chunks[y]) =>
    ListedParts = [k \in 1..Len(split_files) |-> PartName(split_idx, split_files[k])]

\* the position of a name in list.txt
ListIndex(name) == CHOOSE z \in DOMAIN list_txt : list_txt[z] = name

\* where the audio of a listed file begins in the concatenated unit file: the
\* durations of the files listed before it
AudioPosition(name) == ListDuration(disk, list_txt, ListIndex(name) - 1)

\* the timeline of the k-th part timing file handed to the merge
PartTimeline(k) == ReadFile(disk, "timings", PartName(split_idx, split_timings[k])).timings

\* the index in the merged timeline of the first record of the k-th part
RECURSIVE FirstRecord(_)
FirstRecord(k) == IF k = 1 THEN 1 ELSE FirstRecord(k - 1) + Len(PartTimeline(k - 1))

\* the merge of a split unit is done, its result saved, and every file that
\* list.txt names exists
MergedAndListed ==
  /\ pc = "cleanup"
  /\ HasFile(disk, "timings", split_idx)
  /\ \A z \in DOMAIN list_txt : HasFile(disk, "mp3", list_txt[z])

\* C25: for a split unit the offset added to part i's word timings in the
\* merged timeline equals the position at which part i's audio begins in the
\* concatenated unit audio as list.txt defines it, for every part i.
C25_OffsetIsAudioPosition ==
  MergedAndListed =>
    LET merged == ReadFile(disk, "timings", split_idx).timings
    IN  \A k \in DOMAIN split_timings :
          merged[FirstRecord(k)].start - PartTimeline(k)[1].start
            = AudioPosition(PartName(split_idx, split_timings[k]))

\* C25 for the first part that has timings when no part precedes it
C25_FirstPart ==
  (MergedAndListed /\ split_timings # <<>> /\ split_timings[1] = 0) =>
    ReadFile(disk, "timings", split_idx).timings[1].start
      = AudioPosition(PartName(split_idx, 0))

\* C26: in comment mode, with or without a rollback, the totalDuration run
\* returns is the sum of the probed durations of the units the renderer takes
\* for the returned lastIndex, the title and the comments 0..lastIndex-1,
\* which is the final value of the overlay cursor.  In a run where no text is
\* split and nothing fails, calls[1] is the title and calls[c + 2] comment c.
C26_LengthIsRenderedTotal ==
  PlainCommentRun => length = CallsTotal(idx + 1)

\* C26 for the runs that end in a rollback
C26_AfterRollback ==
  (PlainCommentRun /\ RolledBack) => length = CallsTotal(idx + 1)

\* C27: in every narration mode with word captions on, the captions emitted
\* for an overlay window are built from the timing file of the unit whose
\* audio duration defines that window: the title window uses the title
\* timings and the window of unit i the timings of unit i.
C27_CaptionsOfTheSameUnit ==
  (sched_pc # Idle /\ word_by_word_text) =>
    \A u \in 0..(sched_i - 1) :
      CaptionsOf(u) # <<>> => TimingsUnit(narration_mode, u) = WindowUnit(narration_mode, u)

\* C27 in comment mode and in story mode 0
C27_OutsideStoryMode1 ==
  (sched_pc # Idle /\ word_by_word_text /\ narration_mode # "story1") =>
    \A u \in 0..(sched_i - 1) :
      TimingsUnit(narration_mode, u) = WindowUnit(narration_mode, u)

\* a caption window is in order and inside the image window [cursor, cursor + d]
CaptionInside(c, cursor, d) ==
  /\ c.windowStart <= c.windowEnd
  /\ cursor <= c.windowStart
  /\ c.windowEnd <= cursor + d

\* the unit-level timing files run has left that have their audio file
UnitTimingFiles ==
  { f \in disk : f.kind = "timings" /\ f.name.part = -1 /\ HasFile(disk, "mp3", f.name) }

\* C28: for every unit that has a timing file, every caption window has
\* windowStart <= windowEnd and lies within the image window of the unit,
\* [cursor, cursor + duration], also when the timeline of the unit is the
\* merge of several parts.  The captions are those apply_word_by_word_text
\* builds from the files run has written, in a run where nothing fails.
C28_CaptionsInsideImageWindow ==
  (pc = "done" /\ faults = 0) =>
    \A f \in UnitTimingFiles : \A cursor \in RunDurations :
      LET d == ReadFile(disk, "mp3", f.name).dur
          caps == apply_word_by_word_text(TimelineFile(f.timings), cursor, cursor + d, 0)
      IN  \A c \in DOMAIN caps : CaptionInside(caps[c], cursor, d)

\* C28 for the units synthesized by one call of call_tts
C28_UnsplitUnits ==
  (pc = "done" /\ faults = 0) =>
    \A f \in UnitTimingFiles : \A cursor \in RunDurations :
      LET d == ReadFile(disk, "mp3", f.name).dur
          caps == apply_word_by_word_text(TimelineFile(f.timings), cursor, cursor + d, 0)
      IN  f.name.i \notin long_units =>
            \A c \in DOMAIN caps : CaptionInside(caps[c], cursor, d)

\* C28 in the overlay loop, for the timelines that start within the duration
C28_WhenTimelineFits ==
  (sched_pc # Idle /\ word_by_word_text) =>
    \A u \in 0..(sched_i - 1) : \A c \in DOMAIN CaptionsOf(u) :
      CaptionInside(CaptionsOf(u)[c], SumTo(audio_clips_durations, u),
                    audio_clips_durations[u + 1])

\* a step in which observer k invokes progress_update_callback
CallbackInvoked(k) ==
  /\ observers[k].pc = "call"
  /\ observers'[k].pc = "update"
  /\ Len(callback_log') = Len(callback_log) + 1

\* the render scope of render k has exited and stop has been signalled
ScopeExited(k) ==
  /\ observers[k].stop
  /\ render_no > k \/ main_pc \in {"read_n", "update", "cleanup", "done", "failed"}

\* C29: once the render scope has exited and stop has been signalled to the
\* observer, the observer takes no step that invokes the progress callback,
\* whatever the interleaving of the main thread and the observer thread.
C29_NoCallbackAfterStop ==
  [][\A k \in Renders : ScopeExited(k) => ~CallbackInvoked(k)]_vars

\* an observer that is at the loop test or asleep when stop is signalled reads
\* the progress file no more and ends
C29_AfterTheNextTest ==
  [][\A k \in Renders :
       (observers[k].stop /\ observers[k].pc \in {"check", "sleep", "ended"})
          => observers'[k].pc \notin {"read", "call", "update"}]_vars

====
